---- MODULE Spec2Model ----
(***************************************************************************)
(* Lattice-based WER engine of task_04 (src/task_04/src/lattice_wer.py):   *)
(* the pairwise aligner, the anchor-based multiple alignment, the lattice  *)
(* builder, the consensus extractor, the WER computer and the LatticeWER   *)
(* orchestrator, driven on the example utterances of main.py and on every  *)
(* small utterance over a three-token vocabulary.                          *)
(*                                                                         *)
(* Python lists are sequences (index k of the code is index k+1 here, the  *)
(* positions stored in traces, nodes and edges stay 0-based as in the      *)
(* code), ordered dicts are sequences of records in insertion order, and a *)
(* float that is a quotient of two small integers is the reduced fraction  *)
(* <<numerator, denominator>>: two such quotients are equal, or ordered,   *)
(* as floats exactly when they are as fractions.                           *)
(***************************************************************************)
EXTENDS Integers, Sequences, FiniteSets, TLC

\* Bounds of the generic utterances: number of hypotheses, and total number
\* of tokens over the hypotheses and the reference.
MaxHyps == 2
MaxWords == 3

\* Bound of a session: number of utterances processed by one LatticeWER.
MaxSamples == 3
MaxBuilds == 3

\* Vocabulary of the generic utterances: "A" and "a" differ only in case.
Words == {"a", "A", "b"}

\* str.lower() on the tokens in play; the transliterated Devanagari tokens
\* of main.py have no case and are left as they are.
Lower(w) == IF w = "A" THEN "a" ELSE w

\* Hypothesis identifiers, in mapping order (main.py).
ModelNames ==
    <<"model_1_whisper", "model_2_wav2vec", "model_3_conformer",
      "model_4_deepspeech", "model_5_custom">>

\* load_example_data: the last token is "hun" with chandrabindu in the
\* reference and in models 1, 3, 5, and with anusvara in models 2 and 4.
ScenarioA ==
    LET r == <<"main", "aaj", "school", "ja", "raha", "hun_chandrabindu">>
        v == <<"main", "aaj", "school", "ja", "raha", "hun_anusvara">>
    IN  [hyps |-> <<r, v, r, v, r>>, ref |-> r]

\* load_example_with_reference_error: "achchhi" in the reference and model 5,
\* "achchha" in models 1-4.
ScenarioB ==
    LET r == <<"yah", "bahut", "achchhi", "baat", "hai">>
        h == <<"yah", "bahut", "achchha", "baat", "hai">>
    IN  [hyps |-> <<h, h, h, h, r>>, ref |-> r]

\* load_example_with_insertions_deletions.
ScenarioC ==
    LET r == <<"mujhe", "yah", "pasand", "hai">>
        i == <<"mujhe", "yah", "bahut", "pasand", "hai">>
        d == <<"mujhe", "pasand", "hai">>
    IN  [hyps |-> <<i, r, i, d, i>>, ref |-> r]

Scenarios == {ScenarioA, ScenarioB, ScenarioC}

\* trust_threshold: the default of compute_lattice_wer, and one other value.
DefaultTrustThreshold == <<4, 5>>
Thresholds == {DefaultTrustThreshold, <<1, 2>>}

\* threshold of should_trust_models_over_reference: the default 0.8 and the
\* values around the confidences a small lattice can hold.
TrustThresholds == {<<1, 3>>, <<1, 2>>, DefaultTrustThreshold, <<1, 1>>}

ValidStrategies == {"voting", "confidence"}
Strategies == ValidStrategies \cup {"majority", "Voting"}

-----------------------------------------------------------------------------
(* Arithmetic on quotients *)

RECURSIVE Gcd(_, _)
Gcd(a, b) == IF b = 0 THEN a ELSE Gcd(b, a % b)

Abs(x) == IF x < 0 THEN -x ELSE x

\* a / b for b > 0, reduced.
Rat(a, b) ==
    LET g == Gcd(Abs(a), b)
    IN  <<a \div g, b \div g>>

RatSub(x, y) == Rat(x[1] * y[2] - y[1] * x[2], x[2] * y[2])
RatLess(x, y) == x[1] * y[2] < y[1] * x[2]
RatLeq(x, y) == x[1] * y[2] <= y[1] * x[2]
RatZero == <<0, 1>>
RatOne == <<1, 1>>

\* Faulty variant of Min3: the third cost left out of the minimum.
Min3OfFirstTwo(a, b, c) ==
    IF a <= b THEN a ELSE b

Min3(a, b, c) ==
    IF a <= b /\ a <= c THEN a ELSE IF b <= c THEN b ELSE c

\* Faulty variant of Reverse: the final alignment.reverse() forgotten.
NoReverse(s) == s

RECURSIVE Reverse(_)
Reverse(s) == IF s = <<>> THEN <<>> ELSE Append(Reverse(Tail(s)), Head(s))

\* sorted(S) for a finite set of integers.
RECURSIVE Sorted(_)
Sorted(S) ==
    IF S = {} THEN <<>>
    ELSE LET lo == CHOOSE x \in S : \A y \in S : x <= y
         IN  <<lo>> \o Sorted(S \ {lo})

-----------------------------------------------------------------------------
(* WordLattice._align_pair *)

\* The DP table of _align_pair: dp[i][j] = (cost, operation), filled row by
\* row and, in a row, from left to right.
AlignPairDP(seq1, seq2) ==
    LET m == Len(seq1)
        n == Len(seq2)
        Cell(i, j, diag, up, left) ==
            LET sub_cost == diag.cost + 1
                del_cost == up.cost + 1
                ins_cost == left.cost + 1
                min_cost == Min3(sub_cost, del_cost, ins_cost)
            IN  IF Lower(seq1[i]) = Lower(seq2[j])
                THEN [cost |-> diag.cost, op |-> "match"]
                ELSE IF min_cost = sub_cost
                THEN [cost |-> sub_cost, op |-> "substitute"]
                ELSE IF min_cost = del_cost
                THEN [cost |-> del_cost, op |-> "delete"]
                ELSE [cost |-> ins_cost, op |-> "insert"]
        row0 == [j \in 0..n |->
                    IF j = 0 THEN [cost |-> 0, op |-> "start"]
                    ELSE [cost |-> j, op |-> "insert"]]
        RECURSIVE Row(_, _, _, _)
        Row(i, prev, j, cur) ==
            IF DOMAIN cur = 0..n THEN cur
            ELSE Row(i, prev, j + 1,
                     (j :> Cell(i, j, prev[j - 1], prev[j], cur[j - 1])) @@ cur)
        RECURSIVE Rows(_, _)
        Rows(i, dp) ==
            IF DOMAIN dp = 0..m THEN dp
            ELSE Rows(i + 1,
                      (i :> Row(i, dp[i - 1], 1,
                                (0 :> [cost |-> i, op |-> "delete"]))) @@ dp)
    IN  Rows(1, (0 :> row0))

\* Faulty variant of AlignPair: an insertion carries the anchor position i
\* it stands before, not the index j - 1 of the inserted token.
AlignPairInsertAtAnchor(seq1, seq2, name) ==
    LET dp == AlignPairDP(seq1, seq2)
        RECURSIVE Back(_, _, _)
        Back(i, j, alignment) ==
            IF ~(i > 0 \/ j > 0) THEN alignment
            ELSE IF i = 0
            THEN Back(i, j - 1, Append(alignment, <<i, seq2[j], "insert">>))
            ELSE IF j = 0
            THEN Back(i - 1, j, Append(alignment, <<i - 1, seq1[i], "delete">>))
            ELSE LET op == dp[i][j].op
                 IN  IF op \in {"match", "substitute"}
                     THEN Back(i - 1, j - 1, Append(alignment, <<i - 1, seq2[j], op>>))
                     ELSE IF op = "delete"
                     THEN Back(i - 1, j,
                               Append(alignment, <<i - 1, seq1[i], "delete">>))
                     ELSE Back(i, j - 1, Append(alignment, <<i, seq2[j], "insert">>))
    IN  Reverse(Back(Len(seq1), Len(seq2), <<>>))

\* The backtrace of _align_pair and the final reverse: a trace of
\* <<position, word, operation>>.
AlignPair(seq1, seq2, name) ==
    LET m == Len(seq1)
        n == Len(seq2)
        dp == AlignPairDP(seq1, seq2)
        RECURSIVE Back(_, _, _)
        Back(i, j, alignment) ==
            IF ~(i > 0 \/ j > 0) THEN alignment
            ELSE IF i = 0
            THEN Back(i, j - 1, Append(alignment, <<j - 1, seq2[j], "insert">>))
            ELSE IF j = 0
            THEN Back(i - 1, j, Append(alignment, <<i - 1, seq1[i], "delete">>))
            ELSE LET op == dp[i][j].op
                 IN  IF op = "match"
                     THEN Back(i - 1, j - 1,
                               Append(alignment, <<i - 1, seq2[j], "match">>))
                     ELSE IF op = "substitute"
                     THEN Back(i - 1, j - 1,
                               Append(alignment, <<i - 1, seq2[j], "substitute">>))
                     ELSE IF op = "delete"
                     THEN Back(i - 1, j,
                               Append(alignment, <<i - 1, seq1[i], "delete">>))
                     ELSE Back(i, j - 1,
                               Append(alignment, <<j - 1, seq2[j], "insert">>))
    IN  Reverse(Back(m, n, <<>>))

-----------------------------------------------------------------------------
(* WordLattice._align_all_sequences *)

\* Faulty variant of AllSequences: the reference entered before the
\* hypotheses.
AllSequencesReferenceFirst(hyps, ref) ==
    <<[name |-> "reference", words |-> ref]>>
        \o SelectSeq(hyps, LAMBDA h : h.name # "reference")

\* {**hypotheses, 'reference': reference}: the reference is the last entry,
\* unless a hypothesis already holds the key, whose value it then replaces.
AllSequences(hyps, ref) ==
    IF \E k \in 1..Len(hyps) : hyps[k].name = "reference"
    THEN [k \in 1..Len(hyps) |->
            IF hyps[k].name = "reference"
            THEN [name |-> "reference", words |-> ref] ELSE hyps[k]]
    ELSE Append(hyps, [name |-> "reference", words |-> ref])

\* Faulty variant of AnchorIndex: the reference always taken as the anchor.
AnchorIsReference(all) == Len(all)

\* Faulty variant of AnchorIndex: the last of the longest sequences.
AnchorLastLongest(all) ==
    CHOOSE k \in 1..Len(all) :
        /\ \A j \in 1..Len(all) : Len(all[j].words) <= Len(all[k].words)
        /\ \A j \in (k + 1)..Len(all) : Len(all[j].words) < Len(all[k].words)

\* max(all_sequences.keys(), key=len of the sequence): the first of the
\* longest sequences.
AnchorIndex(all) ==
    CHOOSE k \in 1..Len(all) :
        /\ \A j \in 1..Len(all) : Len(all[j].words) <= Len(all[k].words)
        /\ \A j \in 1..(k - 1) : Len(all[j].words) < Len(all[k].words)

\* Faulty variant of AlignAllSequences: the anchor's own operations numbered
\* from 1.
AlignAllSequencesOneBased(hyps, ref) ==
    LET all == AllSequences(hyps, ref)
        anchor == all[AnchorIndex(all)]
        Trace(k) ==
            IF all[k].name = anchor.name
            THEN [i \in 1..Len(all[k].words) |->
                    <<i, all[k].words[i], "match">>]
            ELSE AlignPair(anchor.words, all[k].words, all[k].name)
        RECURSIVE Loop(_)
        Loop(alignments) ==
            IF Len(alignments) = Len(all) THEN alignments
            ELSE LET k == Len(alignments) + 1
                 IN  Loop(Append(alignments,
                                 [name |-> all[k].name, trace |-> Trace(k)]))
    IN  Loop(<<>>)

AlignAllSequences(hyps, ref) ==
    LET all == AllSequences(hyps, ref)
        anchor == all[AnchorIndex(all)]
        Trace(k) ==
            IF all[k].name = anchor.name
            THEN [i \in 1..Len(all[k].words) |->
                    <<i - 1, all[k].words[i], "match">>]
            ELSE AlignPair(anchor.words, all[k].words, all[k].name)
        RECURSIVE Loop(_)
        Loop(alignments) ==
            IF Len(alignments) = Len(all) THEN alignments
            ELSE LET k == Len(alignments) + 1
                 IN  Loop(Append(alignments,
                                 [name |-> all[k].name, trace |-> Trace(k)]))
    IN  Loop(<<>>)

-----------------------------------------------------------------------------
(* WordLattice._construct_lattice *)

\* The operations of all the traces in the order the two loops visit them,
\* each with the name of its sequence.
RECURSIVE Visited(_, _)
Visited(alignments, a) ==
    IF a > Len(alignments) THEN <<>>
    ELSE [k \in 1..Len(alignments[a].trace) |->
            [pos |-> alignments[a].trace[k][1],
             word |-> alignments[a].trace[k][2],
             op |-> alignments[a].trace[k][3],
             name |-> alignments[a].name]]
         \o Visited(alignments, a + 1)

\* Faulty variant of PositionWords: the deletions recorded like the other
\* operations.
PositionWordsWithDeletions(alignments) ==
    LET v == Visited(alignments, 1)
        Same(x, y) == x.pos = y.pos /\ Lower(x.word) = Lower(y.word)
        first == Sorted({t \in 1..Len(v) :
                            \A u \in 1..(t - 1) : ~Same(v[u], v[t])})
    IN  [r \in 1..Len(first) |->
            [pos |-> v[first[r]].pos,
             word |-> Lower(v[first[r]].word),
             sources |-> {v[t].name : t \in {u \in 1..Len(v) :
                                                Same(v[u], v[first[r]])}}]]

\* position_words after the loops: position_words[pos][word.lower()] gets the
\* name of every sequence with an operation, other than a deletion, that
\* carries pos and word; a (position, word) pair is listed where the loops
\* first record it.
PositionWords(alignments) ==
    LET v == SelectSeq(Visited(alignments, 1), LAMBDA x : x.op # "delete")
        Same(x, y) == x.pos = y.pos /\ Lower(x.word) = Lower(y.word)
        first == Sorted({t \in 1..Len(v) :
                            \A u \in 1..(t - 1) : ~Same(v[u], v[t])})
    IN  [r \in 1..Len(first) |->
            [pos |-> v[first[r]].pos,
             word |-> Lower(v[first[r]].word),
             sources |-> {v[t].name : t \in {u \in 1..Len(v) :
                                                Same(v[u], v[first[r]])}}]]

LatticeNode(e, total) ==
    [position |-> e.pos, word |-> e.word, sources |-> e.sources,
     confidence |-> Rat(Cardinality(e.sources), total)]

\* Faulty variant of LatticeEdge: the confidence itself taken as the weight.
LatticeEdgeWeightIsConfidence(e, next_pos, total) ==
    [start_pos |-> e.pos, end_pos |-> next_pos, word |-> e.word,
     sources |-> e.sources,
     weight |-> Rat(Cardinality(e.sources), total)]

LatticeEdge(e, next_pos, total) ==
    [start_pos |-> e.pos, end_pos |-> next_pos, word |-> e.word,
     sources |-> e.sources,
     weight |-> RatSub(RatOne, Rat(Cardinality(e.sources), total))]

\* The lattice after _construct_lattice has appended to self.nodes and
\* self.edges, which are not cleared first.
ConstructLattice(lat, alignments) ==
    LET position_words == PositionWords(alignments)
        positions ==
            Sorted({position_words[k].pos : k \in 1..Len(position_words)})
        total == Len(alignments)
        AtPos(pos) == SelectSeq(position_words, LAMBDA e : e.pos = pos)
        RECURSIVE Walk(_, _, _)
        Walk(i, ns, es) ==
            IF i > Len(positions) THEN [nodes |-> ns, edges |-> es]
            ELSE LET here == AtPos(positions[i])
                 IN  Walk(i + 1,
                          ns \o [k \in 1..Len(here) |-> LatticeNode(here[k], total)],
                          IF i < Len(positions)
                          THEN es \o [k \in 1..Len(here) |->
                                        LatticeEdge(here[k], positions[i + 1], total)]
                          ELSE es)
    IN  Walk(1, lat.nodes, lat.edges)

\* WordLattice.__init__
EmptyLattice == [nodes |-> <<>>, edges |-> <<>>]

\* WordLattice.build_from_hypotheses
BuildFromHypotheses(lat, hyps, ref) ==
    ConstructLattice(lat, AlignAllSequences(hyps, ref))

-----------------------------------------------------------------------------
(* WordLattice.get_consensus_transcription *)

\* Faulty variant of VotingBest: min in place of max.
VotingWorst(words) ==
    LET k == CHOOSE k \in 1..Len(words) :
                /\ \A j \in 1..Len(words) :
                      Cardinality(words[j].sources) >= Cardinality(words[k].sources)
                /\ \A j \in 1..(k - 1) :
                      Cardinality(words[j].sources) > Cardinality(words[k].sources)
    IN  words[k].word

\* Faulty variant of VotingBest: the last of the nodes with the most sources.
VotingBestLast(words) ==
    LET k == CHOOSE k \in 1..Len(words) :
                /\ \A j \in 1..Len(words) :
                      Cardinality(words[j].sources) <= Cardinality(words[k].sources)
                /\ \A j \in (k + 1)..Len(words) :
                      Cardinality(words[j].sources) < Cardinality(words[k].sources)
    IN  words[k].word

\* max(words, key=lambda x: x[1])[0] with the number of sources as key: the
\* first of the nodes with the most sources.
VotingBest(words) ==
    LET k == CHOOSE k \in 1..Len(words) :
                /\ \A j \in 1..Len(words) :
                      Cardinality(words[j].sources) <= Cardinality(words[k].sources)
                /\ \A j \in 1..(k - 1) :
                      Cardinality(words[j].sources) < Cardinality(words[k].sources)
    IN  words[k].word

\* Faulty variant of VotingConsensus: one word per node, the grouping by
\* position forgotten.
VotingPerNode(ns) == [k \in 1..Len(ns) |-> ns[k].word]

VotingConsensus(ns) ==
    LET positions == Sorted({ns[k].position : k \in 1..Len(ns)})
    IN  [i \in 1..Len(positions) |->
            VotingBest(SelectSeq(ns, LAMBDA x : x.position = positions[i]))]

\* Faulty variant of ConfidenceBest: the last of the nodes of greatest
\* confidence.
ConfidenceBestLast(words) ==
    LET k == CHOOSE k \in 1..Len(words) :
                /\ \A j \in 1..Len(words) :
                      RatLeq(words[j].confidence, words[k].confidence)
                /\ \A j \in (k + 1)..Len(words) :
                      RatLess(words[j].confidence, words[k].confidence)
    IN  words[k].word

\* The same with the confidence as key.
ConfidenceBest(words) ==
    LET k == CHOOSE k \in 1..Len(words) :
                /\ \A j \in 1..Len(words) :
                      RatLeq(words[j].confidence, words[k].confidence)
                /\ \A j \in 1..(k - 1) :
                      RatLess(words[j].confidence, words[k].confidence)
    IN  words[k].word

ConfidenceConsensus(ns) ==
    LET positions == Sorted({ns[k].position : k \in 1..Len(ns)})
    IN  [i \in 1..Len(positions) |->
            ConfidenceBest(SelectSeq(ns, LAMBDA x : x.position = positions[i]))]

\* Faulty variant of GetConsensusTranscription: an unknown name falls back to voting.
GetConsensusFallback(ns, s) ==
    IF s = "confidence"
    THEN [returned |-> TRUE, value |-> ConfidenceConsensus(ns), err |-> "none"]
    ELSE [returned |-> TRUE, value |-> VotingConsensus(ns), err |-> "none"]

\* The outcome of get_consensus_transcription(strategy): the list returned,
\* or the ValueError raised.
GetConsensusTranscription(ns, s) ==
    IF s = "voting"
    THEN [returned |-> TRUE, value |-> VotingConsensus(ns), err |-> "none"]
    ELSE IF s = "confidence"
    THEN [returned |-> TRUE, value |-> ConfidenceConsensus(ns), err |-> "none"]
    ELSE [returned |-> FALSE, value |-> <<>>, err |-> "ValueError"]

-----------------------------------------------------------------------------
(* WordLattice.should_trust_models_over_reference *)

\* Faulty variant of MaxConfidence: min in place of max.
MinConfidence(nodes_at_pos) ==
    LET k == CHOOSE k \in 1..Len(nodes_at_pos) :
                \A j \in 1..Len(nodes_at_pos) :
                    RatLeq(nodes_at_pos[k].confidence, nodes_at_pos[j].confidence)
    IN  nodes_at_pos[k].confidence

\* max(n.confidence for n in nodes_at_pos), for a non-empty list.
MaxConfidence(nodes_at_pos) ==
    LET k == CHOOSE k \in 1..Len(nodes_at_pos) :
                \A j \in 1..Len(nodes_at_pos) :
                    RatLeq(nodes_at_pos[j].confidence, nodes_at_pos[k].confidence)
    IN  nodes_at_pos[k].confidence

\* Faulty variant of ShouldTrustModelsOverReference: the threshold test
\* turned around.
ShouldTrustBelowThreshold(ns, position, threshold) ==
    LET nodes_at_pos == SelectSeq(ns, LAMBDA n : n.position = position)
    IN  IF nodes_at_pos = <<>> THEN FALSE
        ELSE LET max_confidence == MaxConfidence(nodes_at_pos)
                 RECURSIVE Scan(_, _, _)
                 Scan(k, reference_word, consensus_word) ==
                     IF k > Len(nodes_at_pos)
                     THEN RatLeq(max_confidence, threshold)
                          /\ reference_word # consensus_word
                     ELSE Scan(k + 1,
                               IF "reference" \in nodes_at_pos[k].sources
                               THEN <<nodes_at_pos[k].word>> ELSE reference_word,
                               IF nodes_at_pos[k].confidence = max_confidence
                               THEN <<nodes_at_pos[k].word>> ELSE consensus_word)
             IN  Scan(1, <<>>, <<>>)

\* should_trust_models_over_reference(position, threshold) on the nodes ns.
\* reference_word and consensus_word are None (<<>>) or a word (<<w>>), and
\* the loop leaves in each the word of the last node that sets it.
ShouldTrustModelsOverReference(ns, position, threshold) ==
    LET nodes_at_pos == SelectSeq(ns, LAMBDA n : n.position = position)
    IN  IF nodes_at_pos = <<>> THEN FALSE
        ELSE LET max_confidence == MaxConfidence(nodes_at_pos)
                 RECURSIVE Scan(_, _, _)
                 Scan(k, reference_word, consensus_word) ==
                     IF k > Len(nodes_at_pos)
                     THEN RatLeq(threshold, max_confidence)
                          /\ reference_word # consensus_word
                     ELSE Scan(k + 1,
                               IF "reference" \in nodes_at_pos[k].sources
                               THEN <<nodes_at_pos[k].word>> ELSE reference_word,
                               IF nodes_at_pos[k].confidence = max_confidence
                               THEN <<nodes_at_pos[k].word>> ELSE consensus_word)
             IN  Scan(1, <<>>, <<>>)

-----------------------------------------------------------------------------
(* LatticeWER.compute_standard_wer *)

\* editdistance.eval(hypothesis, reference): the Levenshtein distance of the
\* two lists, their elements compared as they are.
EditDistance(a, b) ==
    LET m == Len(a)
        n == Len(b)
        Cell(i, j, diag, up, left) ==
            IF a[i] = b[j] THEN diag ELSE 1 + Min3(diag, up, left)
        RECURSIVE Row(_, _, _, _)
        Row(i, prev, j, cur) ==
            IF DOMAIN cur = 0..n THEN cur
            ELSE Row(i, prev, j + 1,
                     (j :> Cell(i, j, prev[j - 1], prev[j], cur[j - 1])) @@ cur)
        RECURSIVE Rows(_, _)
        Rows(i, d) ==
            IF DOMAIN d = 0..m THEN d
            ELSE Rows(i + 1, (i :> Row(i, d[i - 1], 1, (0 :> i))) @@ d)
    IN  Rows(1, (0 :> [j \in 0..n |-> j]))[m][n]

\* Faulty variant of AlignmentDetailsDP: on a tie the deletion is preferred
\* to the substitution.
AlignmentDetailsDPDeleteFirst(hyp, ref) ==
    LET m == Len(hyp)
        n == Len(ref)
        Cell(i, j, diag, up, left) ==
            LET sub == diag.dp + 1
                delete == up.dp + 1
                insert == left.dp + 1
                min_cost == Min3(sub, delete, insert)
            IN  IF Lower(hyp[i]) = Lower(ref[j])
                THEN [dp |-> diag.dp, ops |-> "M"]
                ELSE IF min_cost = delete THEN [dp |-> min_cost, ops |-> "D"]
                ELSE IF min_cost = sub THEN [dp |-> min_cost, ops |-> "S"]
                ELSE [dp |-> min_cost, ops |-> "I"]
        row0 == [j \in 0..n |->
                    IF j = 0 THEN [dp |-> 0, ops |-> ""]
                    ELSE [dp |-> j, ops |-> "I"]]
        RECURSIVE Row(_, _, _, _)
        Row(i, prev, j, cur) ==
            IF DOMAIN cur = 0..n THEN cur
            ELSE Row(i, prev, j + 1,
                     (j :> Cell(i, j, prev[j - 1], prev[j], cur[j - 1])) @@ cur)
        RECURSIVE Rows(_, _)
        Rows(i, t) ==
            IF DOMAIN t = 0..m THEN t
            ELSE Rows(i + 1,
                      (i :> Row(i, t[i - 1], 1, (0 :> [dp |-> i, ops |-> "D"]))) @@ t)
    IN  Rows(1, (0 :> row0))

\* The dp and ops tables of _get_alignment_details, filled row by row and,
\* in a row, from left to right.
AlignmentDetailsDP(hyp, ref) ==
    LET m == Len(hyp)
        n == Len(ref)
        Cell(i, j, diag, up, left) ==
            LET sub == diag.dp + 1
                delete == up.dp + 1
                insert == left.dp + 1
                min_cost == Min3(sub, delete, insert)
            IN  IF Lower(hyp[i]) = Lower(ref[j])
                THEN [dp |-> diag.dp, ops |-> "M"]
                ELSE IF min_cost = sub THEN [dp |-> min_cost, ops |-> "S"]
                ELSE IF min_cost = delete THEN [dp |-> min_cost, ops |-> "D"]
                ELSE [dp |-> min_cost, ops |-> "I"]
        row0 == [j \in 0..n |->
                    IF j = 0 THEN [dp |-> 0, ops |-> ""]
                    ELSE [dp |-> j, ops |-> "I"]]
        RECURSIVE Row(_, _, _, _)
        Row(i, prev, j, cur) ==
            IF DOMAIN cur = 0..n THEN cur
            ELSE Row(i, prev, j + 1,
                     (j :> Cell(i, j, prev[j - 1], prev[j], cur[j - 1])) @@ cur)
        RECURSIVE Rows(_, _)
        Rows(i, t) ==
            IF DOMAIN t = 0..m THEN t
            ELSE Rows(i + 1,
                      (i :> Row(i, t[i - 1], 1, (0 :> [dp |-> i, ops |-> "D"]))) @@ t)
    IN  Rows(1, (0 :> row0))

\* The operation counts of _get_alignment_details.
GetAlignmentDetails(hyp, ref) ==
    LET t == AlignmentDetailsDP(hyp, ref)
        RECURSIVE Count(_, _, _, _, _)
        Count(i, j, subs, dels, ins) ==
            IF ~(i > 0 \/ j > 0)
            THEN [substitutions |-> subs, deletions |-> dels, insertions |-> ins]
            ELSE IF i = 0 THEN Count(i, j - 1, subs, dels, ins + 1)
            ELSE IF j = 0 THEN Count(i - 1, j, subs, dels + 1, ins)
            ELSE LET op == t[i][j].ops
                 IN  IF op = "M" THEN Count(i - 1, j - 1, subs, dels, ins)
                     ELSE IF op = "S" THEN Count(i - 1, j - 1, subs + 1, dels, ins)
                     ELSE IF op = "D" THEN Count(i - 1, j, subs, dels + 1, ins)
                     ELSE Count(i, j - 1, subs, dels, ins + 1)
    IN  Count(Len(hyp), Len(ref), 0, 0, 0)

\* Faulty variant of WerOf: an empty reference counted as a full error.
WerOfEmptyIsOne(distance, reference_length) ==
    IF reference_length > 0 THEN Rat(distance, reference_length) ELSE RatOne

\* distance / len(reference) if len(reference) > 0 else 0.0
WerOf(distance, reference_length) ==
    IF reference_length > 0 THEN Rat(distance, reference_length) ELSE RatZero

\* Faulty variant of ComputeStandardWer: 'substitutions' filled from the deletions.
ComputeStandardWerSlip(hypothesis, ref) ==
    LET distance == EditDistance(hypothesis, ref)
        alignment == GetAlignmentDetails(hypothesis, ref)
    IN  [wer |-> WerOf(distance, Len(ref)),
         distance |-> distance,
         reference_length |-> Len(ref),
         substitutions |-> alignment.deletions,
         deletions |-> alignment.deletions,
         insertions |-> alignment.insertions]

\* Faulty variant of ComputeStandardWer: the deletions and the insertions
\* exchanged.
ComputeStandardWerSwapped(hypothesis, ref) ==
    LET distance == EditDistance(hypothesis, ref)
        alignment == GetAlignmentDetails(hypothesis, ref)
    IN  [wer |-> WerOf(distance, Len(ref)),
         distance |-> distance,
         reference_length |-> Len(ref),
         substitutions |-> alignment.substitutions,
         deletions |-> alignment.insertions,
         insertions |-> alignment.deletions]

ComputeStandardWer(hypothesis, ref) ==
    LET distance == EditDistance(hypothesis, ref)
        alignment == GetAlignmentDetails(hypothesis, ref)
    IN  [wer |-> WerOf(distance, Len(ref)),
         distance |-> distance,
         reference_length |-> Len(ref),
         substitutions |-> alignment.substitutions,
         deletions |-> alignment.deletions,
         insertions |-> alignment.insertions]

-----------------------------------------------------------------------------
(* LatticeWER.compute_lattice_wer: the entries of the result *)

\* Faulty variant of Improved: >= in place of >.
ImprovedOrEqual(improvement) == improvement[1] >= 0

\* improvement > 0
Improved(improvement) == improvement[1] > 0

\* Faulty variant of ModelEntry: the lattice WER taken against the raw reference.
ModelEntryRawReference(hypothesis, ref, cons) ==
    LET standard_wer == ComputeStandardWer(hypothesis, ref)
        lattice_wer == ComputeStandardWer(hypothesis, ref)
        improvement == RatSub(standard_wer.wer, lattice_wer.wer)
    IN  [standard_wer |-> standard_wer,
         lattice_wer |-> lattice_wer,
         improvement |-> improvement,
         improved |-> Improved(improvement),
         hypothesis_length |-> Len(hypothesis)]

\* results[model_name]
ModelEntry(hypothesis, ref, cons) ==
    LET standard_wer == ComputeStandardWer(hypothesis, ref)
        lattice_wer == ComputeStandardWer(hypothesis, cons)
        improvement == RatSub(standard_wer.wer, lattice_wer.wer)
    IN  [standard_wer |-> standard_wer,
         lattice_wer |-> lattice_wer,
         improvement |-> improvement,
         improved |-> Improved(improvement),
         hypothesis_length |-> Len(hypothesis)]

\* Faulty variant of MetaEntry: consensus_length filled from the reference.
MetaEntryRefLength(ref, cons, unit, threshold) ==
    [original_reference |-> ref,
     consensus_transcription |-> cons,
     reference_length |-> Len(ref),
     consensus_length |-> Len(ref),
     alignment_unit |-> unit,
     trust_threshold |-> threshold]

\* Faulty variant of MetaEntry: the default stored in place of the
\* threshold passed.
MetaEntryDefaultThreshold(ref, cons, unit, threshold) ==
    [original_reference |-> ref,
     consensus_transcription |-> cons,
     reference_length |-> Len(ref),
     consensus_length |-> Len(cons),
     alignment_unit |-> unit,
     trust_threshold |-> DefaultTrustThreshold]

\* results['_meta']
MetaEntry(ref, cons, unit, threshold) ==
    [original_reference |-> ref,
     consensus_transcription |-> cons,
     reference_length |-> Len(ref),
     consensus_length |-> Len(cons),
     alignment_unit |-> unit,
     trust_threshold |-> threshold]

\* d[key] = value on a dict
DictSet(d, key, value) == (key :> value) @@ d

-----------------------------------------------------------------------------
(* The utterances *)

SeqsUpTo(b) == UNION {[1..k -> Words] : k \in 0..b}

\* The lists of n token sequences with at most budget tokens in all.
RECURSIVE Bundles(_, _)
Bundles(n, budget) ==
    IF n = 0 THEN {<<>>}
    ELSE UNION {{<<s>> \o rest : rest \in Bundles(n - 1, budget - Len(s))} :
                    s \in SeqsUpTo(budget)}

GenericInputs ==
    UNION {{[hyps |-> SubSeq(b, 1, n), ref |-> b[n + 1]] :
                b \in Bundles(n + 1, MaxWords)} : n \in 0..MaxHyps}

\* Two hypotheses of full length against a shorter or equal reference: the
\* inputs whose traces hold insertions next to deletions.
FullLengthInputs ==
    {[hyps |-> <<<<"a", "b", "a">>, h>>, ref |-> r] :
        h \in [1..MaxWords -> Words], r \in {<<"b", "a">>, <<"b", "a", "b">>}}

\* Three one-word hypotheses and a one-word reference: the inputs where the
\* sequences split two against two over the word of a position.
SplitVoteInputs ==
    {[hyps |-> <<<<x>>, <<y>>, <<z>>>>, ref |-> <<r>>] :
        x \in Words, y \in Words, z \in Words, r \in Words}

Inputs == Scenarios \cup GenericInputs \cup FullLengthInputs \cup SplitVoteInputs

\* The hypotheses mapping: identifier -> tokens, in mapping order.
Named(hyps) ==
    [i \in 1..Len(hyps) |-> [name |-> ModelNames[i], words |-> hyps[i]]]

-----------------------------------------------------------------------------
(* State *)

VARIABLES
    alignment_unit,   \* LatticeWER.alignment_unit
    hypotheses,       \* argument of compute_lattice_wer
    reference,        \* argument of compute_lattice_wer
    trust_threshold,  \* argument of compute_lattice_wer
    pc,               \* "start", "built", "loop", "done"
    alignments,       \* the traces of _align_all_sequences
    nodes,            \* WordLattice.nodes
    edges,            \* WordLattice.edges
    strategy,         \* argument of the last get_consensus_transcription call
    consensus,        \* the list that call returned
    returned,         \* whether that call returned
    err,              \* "none", or the exception that call raised
    idx,              \* position of the loop over hypotheses.items()
    results,          \* the result mapping being assembled
    position,         \* argument of the last should_trust_models_over_reference
    threshold,        \* argument of that call
    trusted,          \* what that call returned
    all_results,      \* process_dataset: the calls made so far and their results
    call              \* a direct call of _align_pair or _get_alignment_details:
                      \* its name, its arguments, its DP table and its result

vars ==
    <<alignment_unit, hypotheses, reference, trust_threshold, pc, alignments,
      nodes, edges, strategy, consensus, returned, err, idx, results,
      position, threshold, trusted, all_results, call>>

\* No should_trust_models_over_reference call made so far: position = -1.
trust == <<position, threshold, trusted, all_results, call>>

inputs == <<alignment_unit, hypotheses, reference, trust_threshold>>

Init ==
    /\ alignment_unit = "word"
    /\ \E inp \in Inputs :
          /\ hypotheses = Named(inp.hyps)
          /\ reference = inp.ref
    /\ trust_threshold \in Thresholds
    /\ pc = "start"
    /\ alignments = <<>>
    /\ nodes = EmptyLattice.nodes
    /\ edges = EmptyLattice.edges
    /\ strategy = "none"
    /\ consensus = <<>>
    /\ returned = FALSE
    /\ err = "none"
    /\ idx = 0
    /\ results = <<>>
    /\ position = -1
    /\ threshold = RatZero
    /\ trusted = FALSE
    /\ all_results = <<>>
    /\ call = [fn |-> "none"]

\* Faulty variant of Build: the lattice of the previous call built upon.
BuildOnKeptLattice ==
    /\ pc = "start"
    /\ LET al == AlignAllSequences(hypotheses, reference)
           lat == ConstructLattice([nodes |-> nodes, edges |-> edges], al)
       IN  /\ alignments' = al
           /\ nodes' = lat.nodes
           /\ edges' = lat.edges
    /\ pc' = "built"
    /\ UNCHANGED <<inputs, strategy, consensus, returned, err, idx, results, trust>>

\* compute_lattice_wer: a new WordLattice and build_from_hypotheses on it.
Build ==
    /\ pc = "start"
    /\ LET al == AlignAllSequences(hypotheses, reference)
           lat == ConstructLattice(EmptyLattice, al)
       IN  /\ alignments' = al
           /\ nodes' = lat.nodes
           /\ edges' = lat.edges
    /\ pc' = "built"
    /\ UNCHANGED <<inputs, strategy, consensus, returned, err, idx, results, trust>>

\* get_consensus_transcription(s) on the built lattice, by any caller.
CallGetConsensus(s) ==
    /\ pc = "built"
    /\ LET out == GetConsensusTranscription(nodes, s)
       IN  /\ strategy' = s
           /\ consensus' = out.value
           /\ returned' = out.returned
           /\ err' = out.err
           /\ nodes' = nodes
           /\ edges' = edges
    /\ UNCHANGED <<inputs, pc, alignments, idx, results, trust>>

\* compute_lattice_wer: consensus = get_consensus_transcription('voting'),
\* results = {} and the loop entered.
Consensus ==
    /\ pc = "built"
    /\ LET out == GetConsensusTranscription(nodes, "voting")
       IN  /\ strategy' = "voting"
           /\ consensus' = out.value
           /\ returned' = out.returned
           /\ err' = out.err
    /\ results' = <<>>
    /\ idx' = 1
    /\ pc' = "loop"
    /\ UNCHANGED <<inputs, alignments, nodes, edges, trust>>

\* One iteration of the loop over hypotheses.items().
EvalModel ==
    /\ pc = "loop"
    /\ idx <= Len(hypotheses)
    /\ results' = DictSet(results, hypotheses[idx].name,
                          ModelEntry(hypotheses[idx].words, reference, consensus))
    /\ idx' = idx + 1
    /\ UNCHANGED <<inputs, pc, alignments, nodes, edges, strategy, consensus,
                   returned, err, trust>>

\* results['_meta'] = {...}; return results
AddMeta ==
    /\ pc = "loop"
    /\ idx > Len(hypotheses)
    /\ results' = DictSet(results, "_meta",
                          MetaEntry(reference, consensus, alignment_unit,
                                    trust_threshold))
    /\ pc' = "done"
    /\ UNCHANGED <<inputs, alignments, nodes, edges, strategy, consensus,
                   returned, err, idx, trust>>

Next ==
    \/ Build
    \/ \E s \in Strategies : CallGetConsensus(s)
    \/ Consensus
    \/ EvalModel
    \/ AddMeta

Spec == Init /\ [][Next]_vars

\* The length of the longest of the sequences of the call.
LongestLength ==
    LET all == AllSequences(hypotheses, reference)
    IN  Len(all[AnchorIndex(all)].words)

\* should_trust_models_over_reference(p, t) on the built lattice, by any
\* caller.
CallShouldTrust(p, t) ==
    /\ pc = "built"
    /\ position' = p
    /\ threshold' = t
    /\ trusted' = ShouldTrustModelsOverReference(nodes, p, t)
    /\ UNCHANGED <<inputs, pc, alignments, nodes, edges, strategy, consensus,
                   returned, err, idx, results, all_results, call>>

\* A WordLattice used on its own: one build, then trust queries.
TrustNext ==
    \/ Build
    \/ \E p \in 0..LongestLength : \E t \in TrustThresholds : CallShouldTrust(p, t)

TrustSpec == Init /\ [][TrustNext]_vars

-----------------------------------------------------------------------------
(* process_dataset.main: one LatticeWER, one compute_lattice_wer per sample *)

\* The samples of a session: two of the example utterances, and two small
\* utterances of which one differs from the other in the case of a token.
SessionInputs ==
    {ScenarioB, ScenarioC,
     [hyps |-> << <<"a", "b">>, <<"A">> >>, ref |-> <<"b">>],
     [hyps |-> << <<"a", "b">>, <<"a">> >>, ref |-> <<"b">>]}

SessionInit ==
    /\ alignment_unit = "word"
    /\ \E inp \in SessionInputs :
          /\ hypotheses = Named(inp.hyps)
          /\ reference = inp.ref
    /\ trust_threshold \in Thresholds
    /\ pc = "start"
    /\ alignments = <<>>
    /\ nodes = EmptyLattice.nodes
    /\ edges = EmptyLattice.edges
    /\ strategy = "none"
    /\ consensus = <<>>
    /\ returned = FALSE
    /\ err = "none"
    /\ idx = 0
    /\ results = <<>>
    /\ position = -1
    /\ threshold = RatZero
    /\ trusted = FALSE
    /\ all_results = <<>>
    /\ call = [fn |-> "none"]

\* all_results.append(...) after a call has returned, and the next sample
\* taken up. What the finished call has left in its local variables stays
\* where it is until the next call assigns them.
NextSample ==
    /\ pc = "done"
    /\ all_results' =
          Append(all_results,
                 [hypotheses |-> hypotheses, reference |-> reference,
                  trust_threshold |-> trust_threshold, results |-> results])
    /\ IF Len(all_results) + 1 < MaxSamples
       THEN /\ \E inp \in SessionInputs :
                  /\ hypotheses' = Named(inp.hyps)
                  /\ reference' = inp.ref
            /\ trust_threshold' \in Thresholds
            /\ pc' = "start"
       ELSE /\ pc' = "finished"
            /\ UNCHANGED <<hypotheses, reference, trust_threshold>>
    /\ UNCHANGED <<alignment_unit, alignments, nodes, edges, strategy, consensus,
                   returned, err, idx, results, position, threshold, trusted, call>>

SessionNext ==
    \/ Build
    \/ Consensus
    \/ EvalModel
    \/ AddMeta
    \/ NextSample

SessionSpec == SessionInit /\ [][SessionNext]_vars

-----------------------------------------------------------------------------
(* build_from_hypotheses called again on one WordLattice *)

\* The number of build_from_hypotheses calls the WordLattice has served.
Builds ==
    IF pc = "start" THEN 0
    ELSE IF call.fn = "build_from_hypotheses" THEN call.builds
    ELSE 1

\* build_from_hypotheses(hypotheses, reference) on a WordLattice that has
\* been built before: _construct_lattice appends to self.nodes and self.edges
\* as they are. The caller lets go of what an earlier
\* get_consensus_transcription returned.
Rebuild ==
    /\ pc = "built"
    /\ Builds < MaxBuilds
    /\ \E inp \in SessionInputs :
          /\ hypotheses' = Named(inp.hyps)
          /\ reference' = inp.ref
          /\ LET lat == BuildFromHypotheses([nodes |-> nodes, edges |-> edges],
                                            Named(inp.hyps), inp.ref)
             IN  /\ alignments' = AlignAllSequences(Named(inp.hyps), inp.ref)
                 /\ nodes' = lat.nodes
                 /\ edges' = lat.edges
    /\ call' = [fn |-> "build_from_hypotheses", builds |-> Builds + 1]
    /\ strategy' = "none"
    /\ consensus' = <<>>
    /\ returned' = FALSE
    /\ err' = "none"
    /\ UNCHANGED <<alignment_unit, trust_threshold, pc, idx, results,
                   position, threshold, trusted, all_results>>

RebuildNext ==
    \/ Build
    \/ Rebuild
    \/ \E s \in Strategies : CallGetConsensus(s)

RebuildSpec == SessionInit /\ [][RebuildNext]_vars

-----------------------------------------------------------------------------
(* _align_pair and _get_alignment_details called on any two sequences *)

DirectInit ==
    /\ \E a \in SeqsUpTo(MaxWords) : \E b \in SeqsUpTo(MaxWords) :
          call = [fn |-> "none", seq1 |-> a, seq2 |-> b]
    /\ alignment_unit = "word"
    /\ hypotheses = <<>>
    /\ reference = <<>>
    /\ trust_threshold = DefaultTrustThreshold
    /\ pc = "direct"
    /\ alignments = <<>>
    /\ nodes = EmptyLattice.nodes
    /\ edges = EmptyLattice.edges
    /\ strategy = "none"
    /\ consensus = <<>>
    /\ returned = FALSE
    /\ err = "none"
    /\ idx = 0
    /\ results = <<>>
    /\ position = -1
    /\ threshold = RatZero
    /\ trusted = FALSE
    /\ all_results = <<>>

\* _align_pair(seq1, seq2, name): dp is the table it has filled, out the
\* trace it returns.
CallAlignPair ==
    /\ pc = "direct"
    /\ call.fn = "none"
    /\ call' = [fn |-> "_align_pair", seq1 |-> call.seq1, seq2 |-> call.seq2,
                dp |-> AlignPairDP(call.seq1, call.seq2),
                out |-> AlignPair(call.seq1, call.seq2, "model_1_whisper")]
    /\ UNCHANGED <<inputs, pc, alignments, nodes, edges, strategy, consensus,
                   returned, err, idx, results, position, threshold, trusted,
                   all_results>>

\* _get_alignment_details(hyp, ref): dp holds the dp and ops tables, out the
\* counts it returns.
CallGetAlignmentDetails ==
    /\ pc = "direct"
    /\ call.fn = "none"
    /\ call' = [fn |-> "_get_alignment_details",
                seq1 |-> call.seq1, seq2 |-> call.seq2,
                dp |-> AlignmentDetailsDP(call.seq1, call.seq2),
                out |-> GetAlignmentDetails(call.seq1, call.seq2)]
    /\ UNCHANGED <<inputs, pc, alignments, nodes, edges, strategy, consensus,
                   returned, err, idx, results, position, threshold, trusted,
                   all_results>>

DirectNext ==
    \/ CallAlignPair
    \/ CallGetAlignmentDetails

DirectSpec == DirectInit /\ [][DirectNext]_vars

-----------------------------------------------------------------------------
(* Vocabulary of the properties *)

IsScenario(sc) == hypotheses = Named(sc.hyps) /\ reference = sc.ref

\* The hypotheses whose entry the loop has already written.
Evaluated ==
    IF pc \in {"loop", "done"} THEN 1..(idx - 1) ELSE {}

Entry(k) == results[hypotheses[k].name]

\* The Levenshtein distance with the tokens compared after lowercasing.
CaseFoldedDistance(a, b) ==
    EditDistance([i \in 1..Len(a) |-> Lower(a[i])],
                 [i \in 1..Len(b) |-> Lower(b[i])])

\* The minimal number of single-token substitutions, deletions and insertions
\* that turn a into b, two tokens being equal when their lowercase forms are:
\* the least cost over all the ways of editing the prefixes.
RECURSIVE Levenshtein(_, _)
Levenshtein(a, b) ==
    IF a = <<>> THEN Len(b)
    ELSE IF b = <<>> THEN Len(a)
    ELSE LET la == SubSeq(a, 1, Len(a) - 1)
             lb == SubSeq(b, 1, Len(b) - 1)
             costs == {Levenshtein(la, b) + 1,
                       Levenshtein(a, lb) + 1,
                       Levenshtein(la, lb)
                         + (IF Lower(a[Len(a)]) = Lower(b[Len(b)]) THEN 0 ELSE 1)}
         IN  CHOOSE c \in costs : \A d \in costs : c <= d

\* The operations of a trace other than the matches.
NonMatch(trace) == SelectSeq(trace, LAMBDA o : o[3] # "match")

\* The cell (i, j) of the table of the direct call, in one vocabulary for the
\* two functions: its cost and the operation recorded in it.
OpOfLetter(c) ==
    IF c = "M" THEN "match"
    ELSE IF c = "S" THEN "substitute"
    ELSE IF c = "D" THEN "delete"
    ELSE IF c = "I" THEN "insert"
    ELSE "none"

RecordedCell(i, j) ==
    IF call.fn = "_align_pair"
    THEN [cost |-> call.dp[i][j].cost, op |-> call.dp[i][j].op]
    ELSE [cost |-> call.dp[i][j].dp, op |-> OpOfLetter(call.dp[i][j].ops)]

\* The operations met from cell (i, j) back to cell (0, 0) when each step
\* takes the operation recorded in the cell it stands on, an insertion on row
\* 0 and a deletion on column 0.
RECURSIVE RecordedPath(_, _)
RecordedPath(i, j) ==
    IF i = 0 /\ j = 0 THEN <<>>
    ELSE LET op == IF i = 0 THEN "insert"
                   ELSE IF j = 0 THEN "delete"
                   ELSE RecordedCell(i, j).op
         IN  <<op>> \o RecordedPath(IF op = "insert" THEN i ELSE i - 1,
                                    IF op = "delete" THEN j ELSE j - 1)

\* The cells (i, j) of the direct call whose two tokens differ after
\* lowercasing.
DifferingCells ==
    {c \in (1..Len(call.seq1)) \X (1..Len(call.seq2)) :
        Lower(call.seq1[c[1]]) # Lower(call.seq2[c[2]])}

\* The three costs offered to cell (i, j).
SubCost(i, j) == RecordedCell(i - 1, j - 1).cost + 1
DelCost(i, j) == RecordedCell(i - 1, j).cost + 1
InsCost(i, j) == RecordedCell(i, j - 1).cost + 1
LeastCost(i, j) ==
    CHOOSE c \in {SubCost(i, j), DelCost(i, j), InsCost(i, j)} :
        \A d \in {SubCost(i, j), DelCost(i, j), InsCost(i, j)} : c <= d

\* The sequences, by their place in alignments, whose trace has an operation
\* other than a deletion that carries position pos and, after lowercasing,
\* word w.
Carriers(pos, w) ==
    {a \in 1..Len(alignments) :
        \E k \in 1..Len(alignments[a].trace) :
            /\ alignments[a].trace[k][3] # "delete"
            /\ alignments[a].trace[k][1] = pos
            /\ Lower(alignments[a].trace[k][2]) = w}

\* The (position, lowercased word) pairs carried by an operation, other than
\* a deletion, of some trace.
CarriedPairs ==
    UNION {{<<alignments[a].trace[k][1], Lower(alignments[a].trace[k][2])>> :
              k \in {l \in 1..Len(alignments[a].trace) :
                        alignments[a].trace[l][3] # "delete"}} :
           a \in 1..Len(alignments)}

\* No token of a equals a token of b under the engine's case-folded equality.
ShareNoToken(a, b) ==
    \A i \in 1..Len(a) : \A j \in 1..Len(b) : Lower(a[i]) # Lower(b[j])

\* A WER record that reports no error at all against a reference of length n.
IsPerfect(rec, n) ==
    /\ rec.distance = 0
    /\ rec.substitutions = 0
    /\ rec.deletions = 0
    /\ rec.insertions = 0
    /\ rec.wer = RatZero
    /\ rec.reference_length = n

\* A WER record of a total mismatch of length n.
IsTotalMismatch(rec, n) ==
    /\ rec.distance = n
    /\ rec.substitutions = n
    /\ rec.deletions = 0
    /\ rec.insertions = 0
    /\ rec.wer = RatOne

-----------------------------------------------------------------------------
(* Properties *)

\* C1 (Scenario B): on the reference-error example the consensus has
\* "achchha" as its third word; models 1-4 have standard wer > 0, lattice
\* wer = 0, improvement > 0 and improved = true; model 5, equal to the
\* reference, has standard wer = 0, lattice wer > 0, improvement < 0 and
\* improved = false.
C1_ScenarioB ==
    (IsScenario(ScenarioB) /\ pc = "done") =>
        /\ results["_meta"].consensus_transcription[3] = "achchha"
        /\ \A k \in 1..4 :
              /\ RatLess(RatZero, Entry(k).standard_wer.wer)
              /\ Entry(k).lattice_wer.wer = RatZero
              /\ RatLess(RatZero, Entry(k).improvement)
              /\ Entry(k).improved = TRUE
        /\ Entry(5).standard_wer.wer = RatZero
        /\ RatLess(RatZero, Entry(5).lattice_wer.wer)
        /\ RatLess(Entry(5).improvement, RatZero)
        /\ Entry(5).improved = FALSE

C1_Witness == IsScenario(ScenarioB) /\ pc = "done"

\* C2 (Scenario C): on the insertion example the consensus contains "bahut";
\* the inserting models 1, 3, 5 have lattice wer = 0, standard wer > 0 and
\* improved = true; model 2, equal to the reference, has standard wer = 0,
\* lattice wer > 0 and improved = false.
C2_ScenarioC ==
    (IsScenario(ScenarioC) /\ pc = "done") =>
        LET cons == results["_meta"].consensus_transcription
        IN  /\ \E i \in 1..Len(cons) : cons[i] = "bahut"
            /\ \A k \in {1, 3, 5} :
                  /\ Entry(k).lattice_wer.wer = RatZero
                  /\ RatLess(RatZero, Entry(k).standard_wer.wer)
                  /\ Entry(k).improved = TRUE
            /\ Entry(2).standard_wer.wer = RatZero
            /\ RatLess(RatZero, Entry(2).lattice_wer.wer)
            /\ Entry(2).improved = FALSE

C2_Witness == IsScenario(ScenarioC) /\ pc = "done"

\* C3 (Scenario A): on the basic example the consensus equals the reference;
\* models 1, 3, 5 have standard wer = lattice wer = 0; models 2 and 4 have
\* lattice wer = standard wer, improvement = 0 and improved = false.
C3_ScenarioA ==
    (IsScenario(ScenarioA) /\ pc = "done") =>
        /\ results["_meta"].consensus_transcription = reference
        /\ \A k \in {1, 3, 5} :
              /\ Entry(k).standard_wer.wer = RatZero
              /\ Entry(k).lattice_wer.wer = RatZero
        /\ \A k \in {2, 4} :
              /\ Entry(k).lattice_wer.wer = Entry(k).standard_wer.wer
              /\ RatLess(RatZero, Entry(k).standard_wer.wer)
              /\ Entry(k).improvement = RatZero
              /\ Entry(k).improved = FALSE

C3_Witness == IsScenario(ScenarioA) /\ pc = "done"

\* C4: every distance compute_standard_wer reports, against the raw reference
\* and against the consensus, is the Levenshtein distance with the tokens
\* compared after lowercasing (so sequences that differ only in case are at
\* distance 0).
C4_CaseFoldedDistance ==
    \A k \in Evaluated :
        /\ Entry(k).standard_wer.distance =
              CaseFoldedDistance(hypotheses[k].words, reference)
        /\ Entry(k).lattice_wer.distance =
              CaseFoldedDistance(hypotheses[k].words, consensus)

\* C5: a sequence aligned by _align_pair to an equal sequence gets one Match
\* per token at indices 0..len-1, and compute_standard_wer of a sequence
\* against itself reports distance 0, no substitution, deletion or insertion
\* and wer 0.0.
C5_Identity ==
    /\ \A k \in 1..Len(alignments) :
          LET all == AllSequences(hypotheses, reference)
              a == AnchorIndex(all)
          IN  (k # a /\ all[k].words = all[a].words) =>
                  /\ Len(alignments[k].trace) = Len(all[k].words)
                  /\ \A i \in 1..Len(all[k].words) :
                        alignments[k].trace[i] = <<i - 1, all[k].words[i], "match">>
    /\ \A k \in Evaluated :
          /\ hypotheses[k].words = reference =>
                IsPerfect(Entry(k).standard_wer, Len(reference))
          /\ hypotheses[k].words = consensus =>
                IsPerfect(Entry(k).lattice_wer, Len(consensus))

C5_Witness ==
    /\ pc = "done"
    /\ Len(reference) >= 2
    /\ \E k \in 2..Len(hypotheses) :
          /\ hypotheses[k].words = hypotheses[1].words
          /\ hypotheses[k].words = reference
          /\ \A i \in 1..Len(reference) : alignments[k].trace[i][3] = "match"
          /\ Entry(k).standard_wer.distance = 0

\* C6: for two sequences of the same length L > 0 with no token in common
\* (under the engine's case-folded token equality) compute_standard_wer
\* reports distance = L, substitutions = L, deletions = insertions = 0 and
\* wer = 1.0.
C6_TotalMismatch ==
    \A k \in Evaluated :
        LET h == hypotheses[k].words
        IN  /\ (Len(h) > 0 /\ Len(h) = Len(reference) /\ ShareNoToken(h, reference))
                  => IsTotalMismatch(Entry(k).standard_wer, Len(h))
            /\ (Len(h) > 0 /\ Len(h) = Len(consensus) /\ ShareNoToken(h, consensus))
                  => IsTotalMismatch(Entry(k).lattice_wer, Len(h))

C6_Witness ==
    /\ pc = "done"
    /\ \E k \in 1..Len(hypotheses) :
          /\ Len(hypotheses[k].words) > 0
          /\ Len(hypotheses[k].words) = Len(reference)
          /\ ShareNoToken(hypotheses[k].words, reference)
          /\ Entry(k).standard_wer.substitutions = Len(reference)

\* C7: against an empty reference compute_standard_wer reports wer = 0.0 and
\* distance = len(hypothesis); against a non-empty one it reports
\* wer = distance / reference_length with reference_length = len(reference).
C7_WerOfReference ==
    \A k \in Evaluated :
        LET h == hypotheses[k].words
            Holds(rec, r) ==
                /\ rec.reference_length = Len(r)
                /\ Len(r) = 0 => (rec.wer = RatZero /\ rec.distance = Len(h))
                /\ Len(r) > 0 =>
                      /\ rec.wer[2] > 0
                      /\ rec.wer[1] * Len(r) = rec.distance * rec.wer[2]
        IN  /\ Holds(Entry(k).standard_wer, reference)
            /\ Holds(Entry(k).lattice_wer, consensus)

C7_Witness ==
    /\ pc = "done"
    /\ Len(reference) = 0
    /\ \E k \in 1..Len(hypotheses) :
          /\ Entry(k).standard_wer.distance > 0
          /\ Entry(k).standard_wer.wer = RatZero

\* C8: the result returned has exactly one entry per hypothesis identifier
\* plus the key '_meta'; an entry holds standard_wer, lattice_wer,
\* improvement, improved and hypothesis_length = len(hypothesis); '_meta'
\* holds the reference as passed, the voting consensus, their lengths, the
\* alignment unit and the trust threshold; with no hypothesis the result
\* holds '_meta' alone.
C8_ResultShape ==
    pc = "done" =>
        /\ DOMAIN results =
              {hypotheses[k].name : k \in 1..Len(hypotheses)} \cup {"_meta"}
        /\ \A k \in 1..Len(hypotheses) :
              /\ DOMAIN Entry(k) =
                    {"standard_wer", "lattice_wer", "improvement", "improved",
                     "hypothesis_length"}
              /\ Entry(k).hypothesis_length = Len(hypotheses[k].words)
        /\ DOMAIN results["_meta"] =
              {"original_reference", "consensus_transcription",
               "reference_length", "consensus_length", "alignment_unit",
               "trust_threshold"}
        /\ results["_meta"].original_reference = reference
        /\ results["_meta"].consensus_transcription = VotingConsensus(nodes)
        /\ results["_meta"].reference_length = Len(reference)
        /\ results["_meta"].consensus_length = Len(VotingConsensus(nodes))
        /\ results["_meta"].alignment_unit = alignment_unit
        /\ results["_meta"].trust_threshold = trust_threshold
        /\ Len(hypotheses) = 0 => DOMAIN results = {"_meta"}

C8_Witness ==
    /\ pc = "done"
    /\ Len(hypotheses) = 2
    /\ Cardinality(DOMAIN results) = 3
    /\ results["_meta"].consensus_length # results["_meta"].reference_length

\* C9: the entry of every hypothesis h holds the WER record of h against the
\* raw reference, the WER record of h against the voting consensus of the
\* lattice, improvement = standard wer - lattice wer, and improved exactly
\* when the standard wer is the greater of the two.
C9_EntryOfHypothesis ==
    \A k \in Evaluated :
        LET h == hypotheses[k].words
            s == Entry(k).standard_wer
            l == Entry(k).lattice_wer
            d == Entry(k).improvement
        IN  /\ s = ComputeStandardWer(h, reference)
            /\ l = ComputeStandardWer(h, VotingConsensus(nodes))
            /\ d[2] > 0
            /\ d[1] * (s.wer[2] * l.wer[2]) =
                  (s.wer[1] * l.wer[2] - l.wer[1] * s.wer[2]) * d[2]
            /\ Entry(k).improved <=> RatLess(l.wer, s.wer)

C9_Witness ==
    /\ pc = "done"
    /\ \E k \in 1..Len(hypotheses) :
          /\ Entry(k).improved
          /\ Entry(k).lattice_wer # Entry(k).standard_wer
          /\ VotingConsensus(nodes) # reference

\* C10: get_consensus_transcription with a strategy name other than 'voting'
\* or 'confidence' raises ValueError, returns nothing and leaves the nodes
\* and the edges of the lattice as they were; and whatever calls came before
\* it, a call that returns gives the consensus of the lattice as it was built.
C10_UnknownStrategy ==
    /\ [][(pc = "built" /\ strategy' \notin ValidStrategies) =>
            /\ err' = "ValueError"
            /\ ~returned'
            /\ nodes' = nodes
            /\ edges' = edges]_vars
    /\ [](pc = "built" /\ returned =>
            /\ err = "none"
            /\ nodes = BuildFromHypotheses(EmptyLattice, hypotheses, reference).nodes
            /\ strategy = "voting" => consensus = VotingConsensus(nodes)
            /\ strategy = "confidence" => consensus = ConfidenceConsensus(nodes))

C10_Witness ==
    /\ pc = "built"
    /\ strategy \notin ValidStrategies
    /\ err = "ValueError"
    /\ ~returned
    /\ Len(nodes) > 1

\* The indices, in the node list, of the nodes at position p.
NodesAt(p) == {k \in 1..Len(nodes) : nodes[k].position = p}

\* The greatest element of a non-empty set of indices.
LastOf(S) == CHOOSE k \in S : \A j \in S : j <= k

\* C11: should_trust_models_over_reference(p, t) returns true only when some
\* node at p has confidence >= t (the maximum confidence at p is >= t), and
\* on an unchanged lattice a call at the same position with a threshold no
\* greater than that of a call that returned true returns true as well.
C11_TrustMonotone ==
    /\ [](trusted =>
            \E k \in NodesAt(position) : RatLeq(threshold, nodes[k].confidence))
    /\ [][(/\ pc = "built"
           /\ position >= 0
           /\ trusted
           /\ position' = position
           /\ RatLeq(threshold', threshold)) => trusted']_vars

C11_Witness ==
    /\ pc = "built"
    /\ trusted
    /\ threshold = <<1, 2>>
    /\ ~ShouldTrustModelsOverReference(nodes, position, <<1, 1>>)

OccupiedPositions == {nodes[k].position : k \in 1..Len(nodes)}

\* The i-th occupied position in ascending order, i = 1, 2, ...
OccupiedPosition(i) ==
    CHOOSE p \in OccupiedPositions :
        Cardinality({q \in OccupiedPositions : q < p}) = i - 1

\* C13: the voting consensus has exactly one word per occupied position, in
\* ascending order of position, and the word given for a position is the
\* word of a node at that position.
C13_ConsensusPerPosition ==
    (returned /\ strategy = "voting") =>
        /\ Len(consensus) = Cardinality(OccupiedPositions)
        /\ \A i \in 1..Len(consensus) :
              \E k \in NodesAt(OccupiedPosition(i)) : nodes[k].word = consensus[i]

C13_Witness ==
    /\ returned
    /\ strategy = "voting"
    /\ Len(consensus) >= 2
    /\ Len(nodes) > Len(consensus)

\* C14: in a session of compute_lattice_wer calls on one LatticeWER, two
\* calls with the same hypotheses (in the same order), reference and
\* threshold have the same result, whatever was processed before each.
C14_CallsIndependent ==
    \A i, j \in 1..Len(all_results) :
        (/\ all_results[i].hypotheses = all_results[j].hypotheses
         /\ all_results[i].reference = all_results[j].reference
         /\ all_results[i].trust_threshold = all_results[j].trust_threshold)
            => all_results[i].results = all_results[j].results

C14_Witness ==
    /\ Len(all_results) = 3
    /\ all_results[1].hypotheses = all_results[3].hypotheses
    /\ all_results[1].reference = all_results[3].reference
    /\ all_results[1].trust_threshold = all_results[3].trust_threshold
    /\ all_results[2].reference # all_results[1].reference
    /\ all_results[3].results = all_results[1].results
    /\ all_results[2].results # all_results[1].results

\* C15: two compute_lattice_wer calls with the same hypotheses and reference
\* return the same entries for the hypotheses and the same '_meta' but for
\* its trust_threshold, which is the threshold passed to the call (0.8 by
\* default): the threshold changes nothing else.
C15_ThresholdAdvisory ==
    \A i, j \in 1..Len(all_results) :
        (/\ all_results[i].hypotheses = all_results[j].hypotheses
         /\ all_results[i].reference = all_results[j].reference)
            => LET a == all_results[i].results
                   b == all_results[j].results
               IN  /\ DOMAIN a = DOMAIN b
                   /\ \A k \in DOMAIN a \ {"_meta"} : a[k] = b[k]
                   /\ DOMAIN a["_meta"] = DOMAIN b["_meta"]
                   /\ \A f \in DOMAIN a["_meta"] \ {"trust_threshold"} :
                         a["_meta"][f] = b["_meta"][f]
                   /\ a["_meta"].trust_threshold = all_results[i].trust_threshold

C15_Witness ==
    /\ Len(all_results) >= 2
    /\ all_results[1].hypotheses = all_results[2].hypotheses
    /\ all_results[1].reference = all_results[2].reference
    /\ all_results[1].trust_threshold = DefaultTrustThreshold
    /\ all_results[2].trust_threshold # DefaultTrustThreshold
    /\ all_results[1].results # all_results[2].results
    /\ Len(all_results[1].hypotheses) > 0

\* C16: the anchor is the first, in the order hypotheses then reference, of
\* the sequences with the most tokens, so the reference is the anchor exactly
\* when it is longer than every hypothesis; the trace of the anchor is one
\* match per token at indices 0..m-1, and the trace of every other sequence
\* is its pairwise alignment against the anchor.
C16_Anchor ==
    pc # "start" =>
        LET all == Append(hypotheses, [name |-> "reference", words |-> reference])
            longest == {k \in 1..Len(all) :
                          \A j \in 1..Len(all) : Len(all[j].words) <= Len(all[k].words)}
            a == CHOOSE k \in longest : \A j \in longest : k <= j
        IN  /\ Len(alignments) = Len(all)
            /\ a = Len(all) <=>
                  \A k \in 1..Len(hypotheses) :
                      Len(hypotheses[k].words) < Len(reference)
            /\ \A k \in 1..Len(all) :
                  /\ alignments[k].name = all[k].name
                  /\ alignments[k].trace =
                        IF k = a
                        THEN [i \in 1..Len(all[a].words) |->
                                <<i - 1, all[a].words[i], "match">>]
                        ELSE AlignPair(all[a].words, all[k].words, all[k].name)

C16_Witness ==
    /\ pc = "built"
    /\ Len(hypotheses) = 2
    /\ Len(hypotheses[1].words) < Len(hypotheses[2].words)
    /\ Len(hypotheses[2].words) = Len(reference)
    /\ alignments[2].trace[1][3] = "match"
    /\ alignments[3].trace[1][3] = "substitute"

\* C17: the trace _align_pair returns for an anchor of m tokens and a
\* sequence of n tokens covers both, each token once and from left to right:
\* its match, substitute and delete operations carry the anchor indices
\* 0..m-1 in ascending order, its match, substitute and insert operations
\* carry the tokens of the sequence in order, and an insert carries the index
\* of its token in the sequence.
C17_TraceCoversBoth ==
    call.fn = "_align_pair" =>
        LET anchor_ops ==
                SelectSeq(call.out,
                          LAMBDA o : o[3] \in {"match", "substitute", "delete"})
            other_ops ==
                SelectSeq(call.out,
                          LAMBDA o : o[3] \in {"match", "substitute", "insert"})
        IN  /\ \A k \in 1..Len(call.out) :
                  call.out[k][3] \in {"match", "substitute", "delete", "insert"}
            /\ Len(anchor_ops) = Len(call.seq1)
            /\ \A i \in 1..Len(anchor_ops) : anchor_ops[i][1] = i - 1
            /\ Len(other_ops) = Len(call.seq2)
            /\ \A r \in 1..Len(other_ops) :
                  /\ other_ops[r][2] = call.seq2[r]
                  /\ other_ops[r][3] = "insert" => other_ops[r][1] = r - 1

C17_Witness ==
    /\ call.fn = "_align_pair"
    /\ \E k \in 1..Len(call.out) : \E l \in 1..Len(call.out) :
          /\ k < l
          /\ call.out[k][3] = "insert"
          /\ call.out[l][3] \in {"match", "substitute"}
          /\ call.out[l][1] < call.out[k][1]

\* C18: for every pair of sequences, the number of operations of the trace of
\* _align_pair that are not matches (substitutions, deletions and insertions)
\* is the Levenshtein distance of the two sequences, tokens compared after
\* lowercasing.  The distance is measured here by the definition of the
\* minimum over all edit scripts, not by the table the function fills.
C18_TraceIsMinimal ==
    call.fn = "_align_pair" =>
        Len(NonMatch(call.out)) = Levenshtein(call.seq1, call.seq2)

\* A pair whose minimal scripts need an insertion inside the table and a
\* substitution, and where a token differs from its partner by case only.
C18_Witness ==
    /\ call.fn = "_align_pair"
    /\ \E k \in 1..Len(call.out) :
          /\ call.out[k][3] = "insert"
          /\ call.out[k][1] > 0
    /\ \E k \in 1..Len(call.out) : call.out[k][3] = "substitute"
    /\ \E k \in 1..Len(call.out) :
          /\ call.out[k][3] = "match"
          /\ call.out[k][2] # call.seq1[call.out[k][1] + 1]

\* C19: in the table of _align_pair and in that of _get_alignment_details,
\* every cell whose two tokens differ after lowercasing records a
\* substitution when the substitution cost is the least of the three costs,
\* otherwise a deletion when the deletion cost is the least, otherwise an
\* insertion; and the result is read off the path that follows the recorded
\* operation of each cell, an insertion on row 0 and a deletion on column 0:
\* the trace of _align_pair is that path from its far end, the counts of
\* _get_alignment_details are the numbers of its operations.
C19_TieBreakAndBacktrace ==
    call.fn \in {"_align_pair", "_get_alignment_details"} =>
        LET m == Len(call.seq1)
            n == Len(call.seq2)
            path == RecordedPath(m, n)
            Count(op) == Cardinality({k \in 1..Len(path) : path[k] = op})
        IN  /\ \A c \in DifferingCells :
                  RecordedCell(c[1], c[2]).op =
                      IF SubCost(c[1], c[2]) = LeastCost(c[1], c[2])
                      THEN "substitute"
                      ELSE IF DelCost(c[1], c[2]) = LeastCost(c[1], c[2])
                      THEN "delete"
                      ELSE "insert"
            /\ call.fn = "_align_pair" =>
                  /\ Len(call.out) = Len(path)
                  /\ \A k \in 1..Len(path) :
                        call.out[k][3] = path[Len(path) - k + 1]
            /\ call.fn = "_get_alignment_details" =>
                  /\ call.out.substitutions = Count("substitute")
                  /\ call.out.deletions = Count("delete")
                  /\ call.out.insertions = Count("insert")

\* A table of _get_alignment_details with a cell where the three costs tie,
\* and whose corner cell ties deletion and insertion below the substitution.
C19_Witness ==
    /\ call.fn = "_get_alignment_details"
    /\ \E c \in DifferingCells :
          /\ SubCost(c[1], c[2]) = DelCost(c[1], c[2])
          /\ SubCost(c[1], c[2]) = InsCost(c[1], c[2])
    /\ <<Len(call.seq1), Len(call.seq2)>> \in DifferingCells
    /\ DelCost(Len(call.seq1), Len(call.seq2)) = InsCost(Len(call.seq1), Len(call.seq2))
    /\ DelCost(Len(call.seq1), Len(call.seq2)) < SubCost(Len(call.seq1), Len(call.seq2))
    /\ call.out.deletions > 0

\* C20: after one build the lattice has exactly one node for each distinct
\* (position, lowercased word) pair carried by an operation, other than a
\* deletion, of some trace, and no other node; a deletion adds neither a node
\* nor a source; the sources of a node are exactly the identifiers of the
\* sequences whose trace carries its pair; its confidence is the number of its
\* sources over the number of aligned sequences, the hypotheses plus the
\* reference; so the sources are not empty and 0 < confidence <= 1; and the
\* nodes are listed by ascending position.
C20_NodesOfOneBuild ==
    pc # "start" =>
        /\ Len(alignments) = Len(hypotheses) + 1
        /\ {<<nodes[k].position, nodes[k].word>> : k \in 1..Len(nodes)} = CarriedPairs
        /\ Len(nodes) = Cardinality(CarriedPairs)
        /\ \A k \in 1..Len(nodes) :
              /\ nodes[k].sources =
                    {alignments[a].name : a \in Carriers(nodes[k].position, nodes[k].word)}
              /\ nodes[k].sources # {}
              /\ nodes[k].confidence[1] * Len(alignments)
                    = Cardinality(nodes[k].sources) * nodes[k].confidence[2]
              /\ RatLess(RatZero, nodes[k].confidence)
              /\ RatLeq(nodes[k].confidence, RatOne)
        /\ \A k \in 1..Len(nodes) : \A l \in (k + 1)..Len(nodes) :
              nodes[k].position <= nodes[l].position

\* A built lattice whose traces hold a deletion and an insertion, with two
\* nodes at one position, a node every sequence supports and a word that
\* reached its node through lowercasing.
C20_Witness ==
    /\ pc = "built"
    /\ \E a \in 1..Len(alignments) : \E k \in 1..Len(alignments[a].trace) :
          alignments[a].trace[k][3] = "delete"
    /\ \E a \in 1..Len(alignments) : \E k \in 1..Len(alignments[a].trace) :
          alignments[a].trace[k][3] = "insert"
    /\ \E k \in 1..Len(nodes) : \E l \in 1..Len(nodes) :
          k # l /\ nodes[k].position = nodes[l].position
    /\ \E k \in 1..Len(nodes) : nodes[k].confidence = RatOne
    /\ \E a \in 1..Len(alignments) : \E k \in 1..Len(alignments[a].trace) :
          /\ alignments[a].trace[k][3] # "delete"
          /\ alignments[a].trace[k][2] # Lower(alignments[a].trace[k][2])

\* The edges that leave node k: those that start at its position with its
\* word.
EdgesOf(k) ==
    {e \in 1..Len(edges) : /\ edges[e].start_pos = nodes[k].position
                           /\ edges[e].word = nodes[k].word}

\* The greatest occupied position of a lattice that has nodes.
FinalPosition == CHOOSE p \in OccupiedPositions : \A q \in OccupiedPositions : q <= p

\* C21: after one build, every node that is not at the greatest occupied
\* position has exactly one outgoing edge, which starts at the node's
\* position, ends at the next greater occupied position, carries the node's
\* word and sources and weighs 1 - confidence; a node at the greatest
\* position has no outgoing edge; so there are as many edges as nodes that are
\* not at the greatest position.
C21_EdgesOfOneBuild ==
    pc # "start" =>
        /\ \A k \in 1..Len(nodes) :
              IF nodes[k].position = FinalPosition
              THEN EdgesOf(k) = {}
              ELSE /\ Cardinality(EdgesOf(k)) = 1
                   /\ \A e \in EdgesOf(k) :
                         /\ edges[e].end_pos > nodes[k].position
                         /\ edges[e].end_pos \in OccupiedPositions
                         /\ \A q \in OccupiedPositions :
                               q > nodes[k].position => edges[e].end_pos <= q
                         /\ edges[e].sources = nodes[k].sources
                         /\ edges[e].weight[1] * nodes[k].confidence[2]
                              = (nodes[k].confidence[2] - nodes[k].confidence[1])
                                  * edges[e].weight[2]
        /\ \A e \in 1..Len(edges) : \E k \in 1..Len(nodes) : e \in EdgesOf(k)
        /\ Len(edges) =
              Cardinality({k \in 1..Len(nodes) : nodes[k].position # FinalPosition})

\* A built lattice with two nodes at a position that is not the last, two at
\* the last, and an edge whose weight is neither 0 nor 1/2.
C21_Witness ==
    /\ pc = "built"
    /\ \E k \in 1..Len(nodes) : \E l \in 1..Len(nodes) :
          k # l /\ nodes[k].position = nodes[l].position
                /\ nodes[k].position # FinalPosition
    /\ \E k \in 1..Len(nodes) : \E l \in 1..Len(nodes) :
          k # l /\ nodes[k].position = FinalPosition
                /\ nodes[l].position = FinalPosition
    /\ \E e \in 1..Len(edges) : edges[e].weight \notin {RatZero, <<1, 2>>}

\* The nodes at position p with the most sources.
MostSupported(p) ==
    {k \in NodesAt(p) :
        \A j \in NodesAt(p) :
            Cardinality(nodes[j].sources) <= Cardinality(nodes[k].sources)}

\* The operations of the traces that contribute to node k, as <<a, t>>: the
\* t-th operation of the a-th sequence, sequences in the order of alignments.
Contributions(k) ==
    {c \in (1..Len(alignments)) \X (1..(2 * MaxWords)) :
        /\ c[2] <= Len(alignments[c[1]].trace)
        /\ alignments[c[1]].trace[c[2]][3] # "delete"
        /\ alignments[c[1]].trace[c[2]][1] = nodes[k].position
        /\ Lower(alignments[c[1]].trace[c[2]][2]) = nodes[k].word}

\* Node k is contributed to before node l when the sequences are scanned in
\* order, each trace from its first operation.
ContributedBefore(k, l) ==
    \E c \in Contributions(k) : \A d \in Contributions(l) :
        c[1] < d[1] \/ (c[1] = d[1] /\ c[2] < d[2])

\* C22: under the voting strategy the word given for a position is the word
\* of a node with the most sources at that position and, when several nodes
\* tie for the most sources, of the one created first, which is the one whose
\* word is contributed first when the sequences are scanned in order, the
\* hypotheses in mapping order and then the reference.
C22_VotingTiesFirstCreated ==
    (returned /\ strategy = "voting") =>
        /\ \A a \in 1..Len(hypotheses) : alignments[a].name = hypotheses[a].name
        /\ alignments[Len(alignments)].name = "reference"
        /\ \A i \in 1..Len(consensus) :
              \E k \in MostSupported(OccupiedPosition(i)) :
                  /\ nodes[k].word = consensus[i]
                  /\ \A l \in MostSupported(OccupiedPosition(i)) \ {k} :
                        k < l /\ ContributedBefore(k, l)

\* A voting consensus over a lattice with a position where two nodes tie for
\* the most sources, and another where one of two nodes has the most.
C22_Witness ==
    /\ returned
    /\ strategy = "voting"
    /\ \E i \in 1..Len(consensus) :
          Cardinality(MostSupported(OccupiedPosition(i))) >= 2
    /\ \E i \in 1..Len(consensus) :
          /\ Cardinality(NodesAt(OccupiedPosition(i))) >= 2
          /\ Cardinality(MostSupported(OccupiedPosition(i))) = 1

\* C23: on the lattice of one build, get_consensus_transcription('confidence')
\* returns the word sequence that get_consensus_transcription('voting')
\* returns, also at the positions where several nodes tie: a call with one
\* strategy that follows a call with the other on the same lattice returns
\* the same list, and the list of the confidence strategy is the voting
\* consensus of the nodes.
C23_ConfidenceIsVoting ==
    /\ []((returned /\ strategy = "confidence") => consensus = VotingConsensus(nodes))
    /\ [][(/\ returned /\ returned'
           /\ {strategy, strategy'} = {"voting", "confidence"}
           /\ nodes' = nodes)
          => consensus' = consensus]_vars

\* A confidence consensus of two words or more over a lattice with a position
\* where two nodes tie for the greatest confidence.
C23_Witness ==
    /\ returned
    /\ strategy = "confidence"
    /\ Len(consensus) >= 2
    /\ \E i \in 1..Len(consensus) :
          Cardinality(MostSupported(OccupiedPosition(i))) >= 2

\* The operations counted in a WER record.
CountedOperations(rec) == rec.substitutions + rec.deletions + rec.insertions

\* C24: every WER record returned by compute_standard_wer, against the raw
\* reference and against the consensus, has
\* substitutions + deletions + insertions = distance.
C24_CountsSumToDistance ==
    \A k \in Evaluated :
        /\ CountedOperations(Entry(k).standard_wer) = Entry(k).standard_wer.distance
        /\ CountedOperations(Entry(k).lattice_wer) = Entry(k).lattice_wer.distance

\* The lengths of the input sequences of the call, hypotheses and reference.
InputLengths ==
    {Len(hypotheses[k].words) : k \in 1..Len(hypotheses)} \cup {Len(reference)}

\* The length of the longest input sequence, measured on the arguments.
LongestInput == CHOOSE m \in InputLengths : \A n \in InputLengths : n <= m

\* The name of the first of the longest input sequences, hypotheses first.
FirstLongestName ==
    IF \E k \in 1..Len(hypotheses) : Len(hypotheses[k].words) = LongestInput
    THEN hypotheses[CHOOSE k \in 1..Len(hypotheses) :
                      /\ Len(hypotheses[k].words) = LongestInput
                      /\ \A j \in 1..(k - 1) :
                            Len(hypotheses[j].words) < LongestInput].name
    ELSE "reference"

\* C25: after one build the occupied positions are exactly 0..m-1, m the
\* length of the longest input sequence: every anchor index holds a node the
\* anchor supports and no node lies outside; hence a consensus and
\* '_meta'.consensus_length have length m, the consensus is not shorter than
\* the reference or any hypothesis, and every edge ends one position after
\* its start.
C25_PositionsAreAnchorIndices ==
    /\ pc # "start" =>
          /\ OccupiedPositions = 0..(LongestInput - 1)
          /\ \A p \in 0..(LongestInput - 1) :
                \E k \in NodesAt(p) : FirstLongestName \in nodes[k].sources
          /\ \A e \in 1..Len(edges) : edges[e].end_pos = edges[e].start_pos + 1
    /\ (returned /\ strategy \in ValidStrategies) =>
          /\ Len(consensus) = LongestInput
          /\ Len(consensus) >= Len(reference)
          /\ \A k \in 1..Len(hypotheses) : Len(consensus) >= Len(hypotheses[k].words)
    /\ pc = "done" => results["_meta"].consensus_length = LongestInput

\* A finished call whose anchor is a hypothesis longer than the reference and
\* where another hypothesis has an insertion in its trace.
C25_Witness ==
    /\ pc = "done"
    /\ LongestInput >= 3
    /\ Len(reference) < LongestInput
    /\ \E a \in 1..Len(alignments) : \E k \in 1..Len(alignments[a].trace) :
          alignments[a].trace[k][3] = "insert"

\* A WER record of a hypothesis of length m against a reference of length n
\* whose deletions count tokens of the hypothesis and whose insertions count
\* tokens of the reference: the tokens of each side that are not deleted or
\* inserted are paired one to one, by a match or a substitution.
CountsBySide(rec, m, n) ==
    /\ rec.deletions - rec.insertions = m - n
    /\ rec.substitutions + rec.deletions <= m
    /\ rec.substitutions + rec.insertions <= n
    /\ n = 0 => rec.deletions = m /\ rec.insertions = 0
    /\ m = 0 => rec.insertions = n /\ rec.deletions = 0

RECURSIVE ConfidenceSum(_)
ConfidenceSum(S) ==
    IF S = {} THEN RatZero
    ELSE LET k == CHOOSE k \in S : TRUE
             rest == ConfidenceSum(S \ {k})
         IN  Rat(nodes[k].confidence[1] * rest[2] + rest[1] * nodes[k].confidence[2],
                 nodes[k].confidence[2] * rest[2])

\* C27: in the lattice of one build each aligned sequence, hypothesis or
\* reference, is a source of at most one node per position, so the
\* confidences of the nodes that share a position sum to at most 1.
C27_OneNodePerSequenceAndPosition ==
    pc # "start" =>
        \A p \in OccupiedPositions :
            /\ \A a \in 1..Len(alignments) :
                  Cardinality({k \in NodesAt(p) :
                                  alignments[a].name \in nodes[k].sources}) <= 1
            /\ RatLeq(ConfidenceSum(NodesAt(p)), RatOne)

\* The word the voting strategy gives for position p of the lattice.
VotingWordAt(p) ==
    VotingConsensus(nodes)[CHOOSE i \in 1..Cardinality(OccupiedPositions) :
                              OccupiedPosition(i) = p]

\* C28: whenever should_trust_models_over_reference(p, t) returns true on a
\* built lattice, the word of the voting consensus at p is not a word the
\* reference supports at p: no node at p with that word has 'reference' among
\* its sources.
C28_TrustAgreesWithConsensus ==
    trusted =>
        \A k \in NodesAt(position) :
            nodes[k].word = VotingWordAt(position) =>
                "reference" \notin nodes[k].sources

\* C29: after any sequence of build_from_hypotheses calls on one WordLattice
\* the nodes, the edges and the consensus are those of the most recent build
\* alone: they equal what a new WordLattice gives on the same arguments, so
\* nothing of an earlier build remains, and no two nodes share both position
\* and word.
C29_OnlyLastBuildRemains ==
    pc = "built" =>
        LET fresh == BuildFromHypotheses(EmptyLattice, hypotheses, reference)
        IN  /\ nodes = fresh.nodes
            /\ edges = fresh.edges
            /\ \A k \in 1..Len(nodes) : \A l \in 1..Len(nodes) :
                  (/\ nodes[k].position = nodes[l].position
                   /\ nodes[k].word = nodes[l].word) => k = l
            /\ (returned /\ strategy \in ValidStrategies) =>
                  consensus = GetConsensusTranscription(fresh.nodes, strategy).value

\* Node k has the reference as its only source.
ReferenceAlone(k) == nodes[k].sources = {"reference"}

\* Node k has a hypothesis among its sources.
HypothesisSupported(k) == nodes[k].sources \ {"reference"} # {}

\* C30: whenever, at a position, a node whose only source is 'reference' ties
\* for the most sources with a node that a hypothesis supports, the voting
\* consensus gives for that position the word of a most-supported node that a
\* hypothesis supports, not the word backed by the reference alone.
C30_TiesNotForReferenceAlone ==
    (returned /\ strategy = "voting") =>
        \A i \in 1..Len(consensus) :
            (/\ \E k \in MostSupported(OccupiedPosition(i)) : ReferenceAlone(k)
             /\ \E l \in MostSupported(OccupiedPosition(i)) : HypothesisSupported(l))
            => /\ \E l \in MostSupported(OccupiedPosition(i)) :
                     HypothesisSupported(l) /\ nodes[l].word = consensus[i]
               /\ \A k \in NodesAt(OccupiedPosition(i)) :
                     ReferenceAlone(k) => nodes[k].word # consensus[i]

\* A voting consensus of two words or more with such a tie at a position
\* where the reference is the anchor.
C30_Witness ==
    /\ returned
    /\ strategy = "voting"
    /\ Len(consensus) >= 2
    /\ FirstLongestName = "reference"
    /\ \E i \in 1..Len(consensus) :
          /\ \E k \in MostSupported(OccupiedPosition(i)) : ReferenceAlone(k)
          /\ \E l \in MostSupported(OccupiedPosition(i)) : HypothesisSupported(l)

====
